---- MODULE Spec2Model ----
(***************************************************************************)
(* A model of the context-scraper pipeline: the concurrency limiter        *)
(* (utils/async_utils.py, utils/httpx_utils.py), the breadth-first crawl   *)
(* (crawler.py), the pipeline wiring and its shutdown protocol (main.py)   *)
(* and the size-aware merger (merger.py).                                  *)
(***************************************************************************)
EXTENDS Integers, Sequences, FiniteSets, TLC

(***************************************************************************)
(* Bounds of the model.                                                    *)
(***************************************************************************)
MaxTasks == 3
MaxLimit == 2
MaxUrls == 3
MaxDepth == 3
MaxLinks == 2
MaxFiles == 3
MaxPdfFiles == 52
MaxItems == 2

(***************************************************************************)
(* Strings are sequences of characters, so that startswith, strip, find    *)
(* and split are what they are in the code. The urls of the model are      *)
(* written with letters, digits and the characters : / ? # . + - and the   *)
(* space; they hold no ";" (urlparse's params), no "[" or "]", no tab and  *)
(* no line end.                                                            *)
(***************************************************************************)
Site == <<"h", "t", "t", "p", ":", "/", "/", "h", ".", "t", "e", "s", "t", "/">>

UrlA == Site \o <<"a">>
UrlAX == Site \o <<"a", "x">>
UrlAY == Site \o <<"a", "y">>
UrlB == Site \o <<"b">>

Universe == {UrlA, UrlAX, UrlAY, UrlB}

UrlList == <<UrlA, UrlAX, UrlAY, UrlB>>

AllowLists == { <<UrlA>>, <<UrlAX, UrlB>>, <<UrlB>> }

VARIABLES
    \* utils/async_utils.py: one call of run_async_tasks
    tasks,          \* the urls of the submitted operations, in submission order
    limit,          \* the concurrency budget
    sem,            \* asyncio.Semaphore._value
    tpc,            \* per operation: "pending", "running", "done"
    tres,           \* per operation: its result
    tkind,          \* per operation: what its HTTP exchange came to
    gather,         \* "idle", "waiting", "returned", "raised"
    completed,      \* the operations that have finished, in completion order
    \* crawler.py: crawl_for_urls
    start_url, allowed_prefixes,
    max_urls,       \* config.max_urls, which main.py hands to run_crawler
    max_depth,      \* the max_depth crawl_for_urls is called with
    web,            \* the urls the pages of the site link to
    pages,          \* per url: the responses a fetch of it can come to
    discovered, queue, depth, crawl_pc, crawl_ret,
    fetch_queue,    \* asyncio.Queue: process_queue / fetch_queue
    fetch_count,    \* per url: how many times a fetch of it was dispatched
    visited_count,  \* history: the fetches completed so far (the code keeps no count)
    \* merger.py: Merger
    ext,            \* "txt" (also stands for ".md") or "pdf"
    max_filesize_mb,
    part_num, current_content, current_batch_size, files_in_batch,
    sealed,         \* the bundles handed to _write_text / _write_pdf, in order
    handed,         \* the artifacts offered to the merger so far, in order
    merger_pc,      \* "run" until the final flush, then "exit"
    \* main.py: run_process and the tasks it starts
    main_pc,        \* where run_process stands; "raised" when it ended with an exception
    wpc,            \* per fetcher task: "idle" (created), "raised", "exit"
    merge_queue,    \* asyncio.Queue between the workers and the merger
    sentinels_put,  \* None values put on fetch_queue so far
    merge_sentinels, \* None values put on merge_queue so far
    \* fetcher.py: ContentFetcher
    output_type,    \* config.output_type
    md_strategy,    \* config.md_strategy
    has_context,    \* whether process_urls was given a browser context
    requests,       \* per operation: the requests answered so far, with their answers
    fstage,         \* per operation: the call it is suspended in
    temp_dir        \* the files written to the temporary directory, in order

limVars == <<tasks, limit, sem, tpc, tres, tkind, gather, completed>>
crawlVars == <<start_url, allowed_prefixes, max_urls, max_depth, web, pages, discovered,
               queue, depth, crawl_pc, crawl_ret, fetch_count, visited_count>>
mergeVars == <<ext, max_filesize_mb, part_num, current_content, current_batch_size,
               files_in_batch, sealed, handed, merger_pc>>
pipeVars == <<main_pc, wpc, merge_queue, sentinels_put, merge_sentinels>>
fetchVars == <<output_type, md_strategy, has_context, requests, fstage, temp_dir>>
vars == <<limVars, crawlVars, fetch_queue, mergeVars, pipeVars, fetchVars>>

(***************************************************************************)
(* Helpers.                                                                *)
(***************************************************************************)
Range(s) == {s[i] : i \in 1..Len(s)}

\* list(a_set): some ordering of the set's elements
Orderings(S) ==
    {s \in [1..Cardinality(S) -> S] : \A i, j \in 1..Cardinality(S) : s[i] = s[j] => i = j}

\* str.startswith
StartsWith(u, p) == Len(p) <= Len(u) /\ SubSeq(u, 1, Len(p)) = p

RECURSIVE SeqSum(_)
SeqSum(s) == IF s = <<>> THEN 0 ELSE s[1] + SeqSum(Tail(s))

(***************************************************************************)
(* HTTP responses and task results.                                        *)
(***************************************************************************)
\* the client follows redirects (main.py line 36, httpx_utils.py line 64):
\* response.url is the requested url or the url a redirect led to
RedirectTarget == UrlAX

FinalUrls(u) == {u, RedirectTarget}

\* what client.get(u) followed by raise_for_status() can produce
Responses(u) ==
    [kind : {"http_error", "request_error", "unexpected"}, links : {{}}, text : {""},
     url : {u}]
    \cup [kind : {"other"}, links : {{}}, text : {"text"}, url : FinalUrls(u)]
    \cup [kind : {"html"}, links : {{}}, text : {""}, url : FinalUrls(u)]
    \cup [kind : {"html"},
          links : {L \in SUBSET web : Cardinality(L) <= MaxLinks},
          text : {"text"}, url : FinalUrls(u)]

NoneResult == [tag |-> "None", url |-> <<>>, links |-> {}, content |-> "None"]

RaisedResult == [tag |-> "raise", url |-> <<>>, links |-> {}, content |-> "None"]

TupleResult(u, l, c) == [tag |-> "tuple", url |-> u, links |-> l, content |-> c]

\* str.strip() on an href: the white space at both ends goes
RECURSIVE LStrip(_)
LStrip(h) == IF h # <<>> /\ h[1] = " " THEN LStrip(Tail(h)) ELSE h

RECURSIVE RStrip(_)
RStrip(h) ==
    IF h # <<>> /\ h[Len(h)] = " " THEN RStrip(SubSeq(h, 1, Len(h) - 1)) ELSE h

Strip(h) == RStrip(LStrip(h))

\* crawler.py parse_links, line 18: hrefs that are left out (the empty href,
\* in-page anchors, javascript:, mailto: and tel: links); startswith tells
\* upper case from lower case
SkippedHref(h) ==
    \/ h = <<>>
    \/ StartsWith(h, <<"#">>)
    \/ StartsWith(h, <<"j", "a", "v", "a", "s", "c", "r", "i", "p", "t", ":">>)
    \/ StartsWith(h, <<"m", "a", "i", "l", "t", "o", ":">>)
    \/ StartsWith(h, <<"t", "e", "l", ":">>)

LowerCase ==
    <<"a", "b", "c", "d", "e", "f", "g", "h", "i", "j", "k", "l", "m">> \o
    <<"n", "o", "p", "q", "r", "s", "t", "u", "v", "w", "x", "y", "z">>

UpperCase ==
    <<"A", "B", "C", "D", "E", "F", "G", "H", "I", "J", "K", "L", "M">> \o
    <<"N", "O", "P", "Q", "R", "S", "T", "U", "V", "W", "X", "Y", "Z">>

AsciiLetters == {LowerCase[i] : i \in 1..26} \cup {UpperCase[i] : i \in 1..26}

\* urllib.parse.scheme_chars
scheme_chars ==
    AsciiLetters \cup {"0", "1", "2", "3", "4", "5", "6", "7", "8", "9", "+", "-", "."}

\* urllib.parse.uses_relative
uses_relative ==
    { <<>>, <<"f", "t", "p">>, <<"h", "t", "t", "p">>,
      <<"g", "o", "p", "h", "e", "r">>, <<"n", "n", "t", "p">>,
      <<"i", "m", "a", "p">>, <<"w", "a", "i", "s">>,
      <<"f", "i", "l", "e">>, <<"h", "t", "t", "p", "s">>,
      <<"s", "h", "t", "t", "p">>, <<"m", "m", "s">>,
      <<"p", "r", "o", "s", "p", "e", "r", "o">>, <<"r", "t", "s", "p">>,
      <<"r", "t", "s", "p", "s">>, <<"r", "t", "s", "p", "u">>,
      <<"s", "f", "t", "p">>, <<"s", "v", "n">>,
      <<"s", "v", "n", "+", "s", "s", "h">>, <<"w", "s">>,
      <<"w", "s", "s">> }

\* urllib.parse.uses_netloc
uses_netloc ==
    { <<>>, <<"f", "t", "p">>, <<"h", "t", "t", "p">>,
      <<"g", "o", "p", "h", "e", "r">>, <<"n", "n", "t", "p">>,
      <<"t", "e", "l", "n", "e", "t">>, <<"i", "m", "a", "p">>,
      <<"w", "a", "i", "s">>, <<"f", "i", "l", "e">>, <<"m", "m", "s">>,
      <<"h", "t", "t", "p", "s">>, <<"s", "h", "t", "t", "p">>,
      <<"s", "n", "e", "w", "s">>,
      <<"p", "r", "o", "s", "p", "e", "r", "o">>, <<"r", "t", "s", "p">>,
      <<"r", "t", "s", "p", "s">>, <<"r", "t", "s", "p", "u">>,
      <<"r", "s", "y", "n", "c">>, <<"s", "v", "n">>,
      <<"s", "v", "n", "+", "s", "s", "h">>, <<"s", "f", "t", "p">>,
      <<"n", "f", "s">>, <<"g", "i", "t">>,
      <<"g", "i", "t", "+", "s", "s", "h">>, <<"w", "s">>,
      <<"w", "s", "s">> }

\* str.lower
Lower(s) ==
    [i \in 1..Len(s) |->
        IF \E k \in 1..26 : UpperCase[k] = s[i]
        THEN LowerCase[CHOOSE k \in 1..26 : UpperCase[k] = s[i]]
        ELSE s[i]]

\* the place of the first character of u from place `from` on that is in S,
\* Len(u) + 1 when none is
FirstOf(u, S, from) ==
    LET marks == {i \in from..Len(u) : u[i] \in S}
    IN IF marks = {} THEN Len(u) + 1 ELSE CHOOSE i \in marks : \A j \in marks : i <= j

\* s[i:], counting from 1
From(s, i) == SubSeq(s, i, Len(s))

\* urlsplit, last step: the query is what follows the first "?"
SplitQuery(scheme, netloc, rest, fragment) ==
    LET mark == FirstOf(rest, {"?"}, 1)
    IN [scheme |-> scheme, netloc |-> netloc, path |-> SubSeq(rest, 1, mark - 1),
        query |-> From(rest, mark + 1), fragment |-> fragment]

\* urlsplit: the fragment is what follows the first "#"
SplitFragment(scheme, netloc, rest) ==
    LET hash == FirstOf(rest, {"#"}, 1)
    IN SplitQuery(scheme, netloc, SubSeq(rest, 1, hash - 1), From(rest, hash + 1))

\* urlsplit: "//" opens the authority, which ends before "/", "?" or "#"
SplitNetloc(scheme, rest) ==
    IF StartsWith(rest, <<"/", "/">>)
    THEN LET stop == FirstOf(rest, {"/", "?", "#"}, 3)
         IN SplitFragment(scheme, SubSeq(rest, 3, stop - 1), From(rest, stop))
    ELSE SplitFragment(scheme, <<>>, rest)

\* urlsplit: the place of the colon that ends a scheme, 0 when the url has
\* no scheme (a scheme begins with a letter and is made of scheme_chars)
SchemeEnd(u) ==
    LET colon == FirstOf(u, {":"}, 1)
    IN IF /\ 1 < colon
          /\ colon <= Len(u)
          /\ u[1] \in AsciiLetters
          /\ \A k \in 1..(colon - 1) : u[k] \in scheme_chars
       THEN colon ELSE 0

\* urlsplit: a scheme is lowered, a url without one gets the default
SplitScheme(u, scheme) ==
    LET colon == SchemeEnd(u)
    IN IF colon > 0 THEN SplitNetloc(Lower(SubSeq(u, 1, colon - 1)), From(u, colon + 1))
       ELSE SplitNetloc(scheme, u)

\* urllib.parse.urlparse(url, scheme): the space at the left goes first
urlparse(url, scheme) == SplitScheme(LStrip(url), scheme)

\* urllib.parse.urlunparse: an empty query or fragment is written without
\* its "?" or "#", and a scheme that uses an authority gets its "//"
urlunparse(p) ==
    LET slashed ==
            IF p.netloc # <<>>
               \/ (p.scheme # <<>> /\ p.scheme \in uses_netloc
                   /\ ~StartsWith(p.path, <<"/", "/">>))
            THEN <<"/", "/">> \o p.netloc
                 \o (IF p.path # <<>> /\ p.path[1] # "/" THEN <<"/">> ELSE <<>>) \o p.path
            ELSE p.path
    IN (IF p.scheme # <<>> THEN p.scheme \o <<":">> ELSE <<>>)
       \o slashed
       \o (IF p.query # <<>> THEN <<"?">> \o p.query ELSE <<>>)
       \o (IF p.fragment # <<>> THEN <<"#">> \o p.fragment ELSE <<>>)

\* str.split("/")
RECURSIVE Split(_)
Split(s) ==
    LET i == FirstOf(s, {"/"}, 1)
    IN IF i > Len(s) THEN <<s>> ELSE <<SubSeq(s, 1, i - 1)>> \o Split(From(s, i + 1))

\* "/".join
RECURSIVE Join(_)
Join(segs) ==
    IF segs = <<>> THEN <<>>
    ELSE IF Len(segs) = 1 THEN segs[1]
    ELSE segs[1] \o <<"/">> \o Join(Tail(segs))

NotEmpty(x) == x # <<>>

\* urljoin: segments[1:-1] = filter(None, segments[1:-1])
FilterInner(segs) ==
    IF Len(segs) <= 2 THEN segs
    ELSE <<segs[1]>> \o SelectSeq(SubSeq(segs, 2, Len(segs) - 1), NotEmpty)
         \o <<segs[Len(segs)]>>

\* urljoin: the loop over the segments, ".." takes the last one back and "."
\* is left out
RECURSIVE Resolve(_, _)
Resolve(segs, done) ==
    IF segs = <<>> THEN done
    ELSE IF segs[1] = <<".", ".">>
    THEN Resolve(Tail(segs), IF done = <<>> THEN done ELSE SubSeq(done, 1, Len(done) - 1))
    ELSE IF segs[1] = <<".">> THEN Resolve(Tail(segs), done)
    ELSE Resolve(Tail(segs), Append(done, segs[1]))

\* urljoin: the segments of the base path without the last one, unless that
\* is empty
BaseParts(whole) ==
    IF whole[Len(whole)] # <<>> THEN SubSeq(whole, 1, Len(whole) - 1) ELSE whole

\* urljoin: a path that begins with "/" stands for itself, any other is put
\* behind the directory of the base
Segments(bpath, path) ==
    IF StartsWith(path, <<"/">>) THEN Split(path)
    ELSE FilterInner(BaseParts(Split(bpath)) \o Split(path))

\* urljoin: the resolved segments, with a closing "/" after a last "." or ".."
ResolvedPath(segments) ==
    Resolve(segments, <<>>)
    \o (IF segments[Len(segments)] \in {<<".">>, <<".", ".">>} THEN << <<>> >> ELSE <<>>)

\* "/".join(resolved_path) or "/"
OrRoot(joined) == IF joined = <<>> THEN <<"/">> ELSE joined

\* urljoin once base and url are parsed
JoinParsed(url, b, u) ==
    IF u.scheme # b.scheme \/ u.scheme \notin uses_relative THEN url
    ELSE IF u.scheme \in uses_netloc /\ u.netloc # <<>> THEN urlunparse(u)
    ELSE IF u.path = <<>>
    THEN urlunparse([scheme |-> u.scheme,
                     netloc |-> IF u.scheme \in uses_netloc THEN b.netloc ELSE u.netloc,
                     path |-> b.path,
                     query |-> IF u.query = <<>> THEN b.query ELSE u.query,
                     fragment |-> u.fragment])
    ELSE urlunparse([scheme |-> u.scheme,
                     netloc |-> IF u.scheme \in uses_netloc THEN b.netloc ELSE u.netloc,
                     path |-> OrRoot(Join(ResolvedPath(Segments(b.path, u.path)))),
                     query |-> u.query, fragment |-> u.fragment])

\* urljoin: the url is parsed with the scheme of the base as default
JoinOnto(url, b) == JoinParsed(url, b, urlparse(url, b.scheme))

\* urllib.parse.urljoin(base, url)
urljoin(base, url) ==
    IF base = <<>> THEN url
    ELSE IF url = <<>> THEN base
    ELSE JoinOnto(url, urlparse(base, <<>>))

\* crawler.py parse_links, lines 26-27: the parsed link without its fragment,
\* written out again by urlunparse
clean_link(u) == urlunparse([urlparse(u, <<>>) EXCEPT !.fragment = <<>>])

\* crawler.py parse_links on the href attributes of the page at url
parse_links(hrefs, url) ==
    LET kept == {h \in {Strip(g) : g \in hrefs} : ~SkippedHref(h)}
        full == {urljoin(url, h) : h \in kept}
    IN {clean_link(f) : f \in {g \in full : urlparse(g, <<>>).scheme
                                              \in {<<"h", "t", "t", "p">>, <<"h", "t", "t", "p", "s">>}}}

\* crawler.py extract_links_task; url is str(response.url), the url of the
\* final response
extract_links_task(resp) ==
    IF resp.kind # "html"
    THEN TupleResult(resp.url, {}, "None")
    ELSE TupleResult(resp.url, parse_links(resp.links, resp.url), resp.text)

\* a variant of httpx_process_url that lets an HTTP error escape
httpx_process_url_raising(url, resp) ==
    IF resp.kind = "http_error" THEN RaisedResult
    ELSE IF resp.kind \in {"request_error", "unexpected"} THEN NoneResult
    ELSE extract_links_task(resp)

\* utils/httpx_utils.py httpx_process_url: every exception becomes None
httpx_process_url(url, resp) ==
    IF resp.kind \in {"http_error", "request_error", "unexpected"}
    THEN NoneResult
    ELSE extract_links_task(resp)

(***************************************************************************)
(* utils/async_utils.py: limit_conc and run_async_tasks.                   *)
(***************************************************************************)
Running == {i \in DOMAIN tpc : tpc[i] = "running"}

\* a semaphore that admits one operation too many
SemInitial_off_by_one(lim) == lim + 1

\* limit_conc: asyncio.Semaphore(limit)
SemInitial(lim) == lim

\* a limiter that builds its semaphore whatever the limit
CanEnter_semaphore_always == sem > 0

\* "async with semaphore": may this operation enter its body?
CanEnter == IF limit > 0 THEN sem > 0 ELSE TRUE

\* a gather that returns as soon as one operation is done
GatherOutcome_first_done ==
    IF \E i \in DOMAIN tres : tpc[i] = "done" /\ tres[i].tag = "raise" THEN "raised"
    ELSE IF \E i \in DOMAIN tpc : tpc[i] = "done" THEN "returned"
    ELSE "waiting"

\* asyncio.gather(*tasks): raises as soon as one operation raises, returns
\* when all are done
GatherOutcome ==
    IF \E i \in DOMAIN tres : tpc[i] = "done" /\ tres[i].tag = "raise" THEN "raised"
    ELSE IF \A i \in DOMAIN tpc : tpc[i] = "done" THEN "returned"
    ELSE "waiting"

\* a result list in the order in which the operations finished
GatherResults_as_completed == [i \in DOMAIN tasks |-> tres[completed[i]]]

\* the list run_async_tasks returns
GatherResults == [i \in DOMAIN tasks |-> tres[i]]

\* run_async_tasks(tasks, limit): the state right after the call
LimCall(ts, lim) ==
    /\ tasks' = ts
    /\ limit' = lim
    /\ sem' = SemInitial(lim)
    /\ tpc' = [i \in 1..Len(ts) |-> "pending"]
    /\ tres' = [i \in 1..Len(ts) |-> NoneResult]
    /\ tkind' = [i \in 1..Len(ts) |-> "pending"]
    /\ gather' = IF ts = <<>> THEN "returned" ELSE "waiting"
    /\ completed' = <<>>

\* worker(task): acquire the semaphore (when there is one) and start the body
LimEnter(i) ==
    /\ gather \in {"waiting", "raised"}
    /\ tpc[i] = "pending"
    /\ CanEnter
    /\ tpc' = [tpc EXCEPT ![i] = "running"]
    /\ sem' = IF limit > 0 THEN sem - 1 ELSE sem
    /\ fetch_count' = [fetch_count EXCEPT ![tasks[i]] = @ + 1]
    /\ UNCHANGED <<tasks, limit, tres, tkind, gather, completed>>

\* the body finishes (httpx_process_url), the semaphore is released
LimFinish(i) ==
    /\ tpc[i] = "running"
    /\ \E resp \in pages[tasks[i]] :
          /\ tres' = [tres EXCEPT ![i] = httpx_process_url(tasks[i], resp)]
          /\ tkind' = [tkind EXCEPT ![i] = resp.kind]
    /\ tpc' = [tpc EXCEPT ![i] = "done"]
    /\ completed' = Append(completed, i)
    /\ sem' = IF limit > 0 THEN sem + 1 ELSE sem
    /\ visited_count' = visited_count + 1
    /\ UNCHANGED <<tasks, limit, gather>>

\* the caller of gather resumes
LimGather ==
    /\ gather = "waiting"
    /\ GatherOutcome # "waiting"
    /\ gather' = GatherOutcome
    /\ UNCHANGED <<tasks, limit, sem, tpc, tres, tkind, completed>>

LimIdle ==
    /\ tasks = <<>>
    /\ limit = 0
    /\ sem = 0
    /\ tpc = <<>>
    /\ tres = <<>>
    /\ tkind = <<>>
    /\ gather = "idle"
    /\ completed = <<>>

(***************************************************************************)
(* crawler.py: crawl_for_urls.                                             *)
(***************************************************************************)
\* a filter that lets everything through
url_filter_open(u) == TRUE

\* crawl_for_urls.url_filter
url_filter(u) == \E i \in 1..Len(allowed_prefixes) : StartsWith(u, allowed_prefixes[i])

\* httpx_process_urls: the results that are not None, in order
RECURSIVE NotNone(_)
NotNone(rs) ==
    IF rs = <<>> THEN <<>>
    ELSE IF rs[1].tag = "None" THEN NotNone(Tail(rs))
    ELSE <<rs[1]>> \o NotNone(Tail(rs))

\* the (url, content) items put on the queue for a list of results
RECURSIVE ContentItems(_)
ContentItems(rs) ==
    IF rs = <<>> THEN <<>>
    ELSE IF rs[1].content \in {"None", ""} THEN ContentItems(Tail(rs))
    ELSE <<[tag |-> "item", url |-> rs[1].url, content |-> rs[1].content]>>
         \o ContentItems(Tail(rs))

AllLinks(rs) == UNION {rs[i].links : i \in 1..Len(rs)}

\* a frontier update that forgets to drop what was seen before
NextQueue_keep_seen(rs) == {u \in AllLinks(rs) : url_filter(u)}

\* next_queue after the filter and difference_update(discovered)
NextQueue(rs) == {u \in AllLinks(rs) : url_filter(u)} \ discovered

\* the urls S and what the pages at them can link to
LinkedFrom(site, S) == S \cup UNION {parse_links(site, b) : b \in S}

\* the urls a crawl of pages with these hrefs can come to
Reachable(site) == LinkedFrom(site, LinkedFrom(site, Universe))

\* a site about which nothing is fixed: every fetch can come to any response
AnyPage == [u \in Reachable(web) |-> Responses(u)]

CrawlIdle ==
    /\ start_url = <<>>
    /\ allowed_prefixes = <<>>
    /\ max_urls = 0
    /\ max_depth = 0
    /\ web = {}
    /\ pages = AnyPage
    /\ discovered = {}
    /\ queue = {}
    /\ depth = 0
    /\ crawl_pc = "idle"
    /\ crawl_ret = {}
    /\ fetch_count = [u \in Universe |-> 0]
    /\ visited_count = 0

\* the state after "discovered = {start_url}; queue = {start_url}"
CrawlStartOn(seed, prefixes, maxUrls, maxDepth, site, responses) ==
    /\ web = site
    /\ pages = responses
    /\ start_url = seed
    /\ allowed_prefixes = prefixes
    /\ max_urls = maxUrls
    /\ max_depth = maxDepth
    /\ discovered = {seed}
    /\ queue = {seed}
    /\ depth = 0
    /\ crawl_pc = "loop"
    /\ crawl_ret = {}
    /\ fetch_count = [u \in Reachable(site) |-> 0]
    /\ visited_count = 0

\* a start that puts the seed through the allow-list as well
CrawlStart_filtered(seed, prefixes, maxUrls, maxDepth, site) ==
    /\ web = site
    /\ pages = AnyPage
    /\ start_url = seed
    /\ allowed_prefixes = prefixes
    /\ max_urls = maxUrls
    /\ max_depth = maxDepth
    /\ discovered = {u \in {seed} : \E i \in 1..Len(prefixes) : StartsWith(u, prefixes[i])}
    /\ queue = discovered
    /\ depth = 0
    /\ crawl_pc = "loop"
    /\ crawl_ret = {}
    /\ fetch_count = [u \in Reachable(site) |-> 0]
    /\ visited_count = 0

\* the same on a site about which nothing is fixed
CrawlStart(seed, prefixes, maxUrls, maxDepth, site) ==
    CrawlStartOn(seed, prefixes, maxUrls, maxDepth, site, AnyPage)

\* top of the for loop with work to do: dispatch the whole queue
CrawlDispatch ==
    /\ crawl_pc = "loop"
    /\ depth < max_depth
    /\ queue # {}
    /\ \E order \in Orderings(queue) : LimCall(order, limit)
    /\ crawl_pc' = "await"
    /\ UNCHANGED mergeVars
    /\ UNCHANGED pipeVars
    /\ UNCHANGED <<start_url, allowed_prefixes, max_urls, max_depth,
                   web, pages, discovered, queue, depth,
                   crawl_ret, fetch_count, visited_count, fetch_queue>>
    /\ UNCHANGED fetchVars

\* the rounds are used up, or the queue is empty: return sorted(discovered)
CrawlReturn ==
    /\ crawl_pc = "loop"
    /\ (depth >= max_depth \/ queue = {})
    /\ crawl_pc' = "returned"
    /\ crawl_ret' = discovered
    /\ UNCHANGED <<start_url, allowed_prefixes, max_urls, max_depth,
                   web, pages, discovered, queue, depth,
                   fetch_count, visited_count, fetch_queue>>
    /\ UNCHANGED limVars
    /\ UNCHANGED mergeVars
    /\ UNCHANGED pipeVars
    /\ UNCHANGED fetchVars

\* httpx_process_urls returned: aggregate the round
CrawlAggregate ==
    /\ crawl_pc = "await"
    /\ gather \in {"returned", "raised"}
    /\ IF gather = "raised"
       THEN /\ crawl_pc' = "crashed"
            /\ UNCHANGED <<discovered, queue, depth, fetch_queue>>
       ELSE LET results == NotNone(GatherResults)
                next_queue == NextQueue(results)
            IN /\ fetch_queue' = fetch_queue \o ContentItems(results)
               /\ discovered' = discovered \cup next_queue
               /\ queue' = next_queue
               /\ depth' = depth + 1
               /\ crawl_pc' = "loop"
    /\ gather' = "idle"
    /\ UNCHANGED <<tasks, limit, sem, tpc, tres, tkind, completed>>
    /\ UNCHANGED <<start_url, allowed_prefixes, max_urls, max_depth,
                   web, pages, crawl_ret, fetch_count,
                   visited_count>>
    /\ UNCHANGED mergeVars
    /\ UNCHANGED pipeVars
    /\ UNCHANGED fetchVars

(***************************************************************************)
(* merger.py: Merger._merge_text_files and Merger._merge_pdfs.             *)
(***************************************************************************)
\* len(("\n\n" + "=" * 40 + "\n\n").encode("utf-8"))
sep_size == 44

\* the hard per-bundle item count of _merge_pdfs
PdfBatchCap == 50

\* config.py RunConfig.max_bytes
max_bytes == max_filesize_mb * 1024 * 1024

SepEntry == [t |-> "sep", id |-> 0, bytes |-> sep_size]

\* what the buffer holds of file f. read_text (line 95) opens the file with
\* universal newlines, so every "\r\n" of the file comes to one "\n": the
\* text held, and written to the bundle, is f.crlf bytes shorter than st_size.
\* A PDF is appended as it is.
ItemEntry(f) == [t |-> "item", id |-> f.id, bytes |-> f.size - f.crlf]

\* the merger's loop-carried locals
MergerState ==
    [part_num |-> part_num, current_content |-> current_content,
     current_batch_size |-> current_batch_size, files_in_batch |-> files_in_batch,
     sealed |-> sealed]

\* _write_text / _write_pdf: the bundle goes out under its part number; a
\* failing write is logged and swallowed
WriteBundle(st, wrote) ==
    Append(st.sealed, [part |-> st.part_num, content |-> st.current_content,
                       written |-> wrote])

\* a text size check that forgets the separator
TextMustFlush_no_sep(st, file_size) ==
    (st.current_batch_size + file_size > max_bytes) /\ (Len(st.current_content) > 0)

\* a text check that seals before every artifact
TextMustFlush_always(st, file_size) == Len(st.current_content) > 0

\* a text size check that looks at the new artifact alone
TextMustFlush_size_only(st, file_size) ==
    (file_size + sep_size > max_bytes) /\ (Len(st.current_content) > 0)

\* merger.py line 88
TextMustFlush(st, file_size) ==
    (st.current_batch_size + file_size + sep_size > max_bytes)
    /\ (Len(st.current_content) > 0)

\* a PDF check that knows the byte budget only
PdfMustFlush_bytes_only(st, file_size) ==
    (st.current_batch_size + file_size > max_bytes) /\ (st.files_in_batch > 0)

\* merger.py line 48
PdfMustFlush(st, file_size) ==
    ((st.current_batch_size + file_size > max_bytes) \/ (st.files_in_batch >= PdfBatchCap))
    /\ (st.files_in_batch > 0)

\* a flush that keeps the buffer and the part number when the write failed
Flushed_keep_on_failure(st, wrote) ==
    IF wrote
    THEN [st EXCEPT !.sealed = WriteBundle(st, wrote),
                    !.part_num = st.part_num + 1,
                    !.current_content = <<>>,
                    !.current_batch_size = 0,
                    !.files_in_batch = 0]
    ELSE [st EXCEPT !.sealed = WriteBundle(st, wrote)]

\* a flush that keeps the part number
Flushed_same_part(st, wrote) ==
    [st EXCEPT !.sealed = WriteBundle(st, wrote),
               !.current_content = <<>>,
               !.current_batch_size = 0,
               !.files_in_batch = 0]

\* the state after a flush inside the loop
Flushed(st, wrote) ==
    [st EXCEPT !.sealed = WriteBundle(st, wrote),
               !.part_num = st.part_num + 1,
               !.current_content = <<>>,
               !.current_batch_size = 0,
               !.files_in_batch = 0]

\* an append that puts the new text in front
AppendText_front(content, f) == <<ItemEntry(f), SepEntry>> \o content

\* merger.py lines 96-97: the text, then the separator
AppendText(content, f) == content \o <<ItemEntry(f), SepEntry>>

\* one iteration of the loop of _merge_text_files on file f
TextStep(st, f, wrote) ==
    IF ~f.stat_ok THEN st
    ELSE LET s1 == IF TextMustFlush(st, f.size) THEN Flushed(st, wrote) ELSE st
         IN IF ~f.read_ok THEN s1
            ELSE [s1 EXCEPT !.current_content = AppendText(s1.current_content, f),
                            !.current_batch_size = s1.current_batch_size
                                                   + f.size + sep_size]

\* one iteration of the loop of _merge_pdfs on file f
PdfStep(st, f, wrote) ==
    IF ~f.stat_ok THEN st
    ELSE LET s1 == IF PdfMustFlush(st, f.size) THEN Flushed(st, wrote) ELSE st
         IN IF ~f.read_ok THEN s1
            ELSE [s1 EXCEPT !.current_content = Append(s1.current_content, ItemEntry(f)),
                            !.current_batch_size = s1.current_batch_size + f.size,
                            !.files_in_batch = s1.files_in_batch + 1]

\* a final flush that is skipped
FinalFlush_skipped(st, wrote) == st

\* a final flush that writes whatever the buffer holds, even nothing
FinalFlush_always(st, wrote) == [st EXCEPT !.sealed = WriteBundle(st, wrote)]

\* after the loop: "if current_content:" / "if files_in_batch > 0:"
FinalFlush(st, wrote) ==
    IF (IF ext = "pdf" THEN st.files_in_batch > 0 ELSE Len(st.current_content) > 0)
    THEN [st EXCEPT !.sealed = WriteBundle(st, wrote)]
    ELSE st

\* Merger.merge dispatches on the extension
MergeStep(st, f, wrote) ==
    IF ext = "pdf" THEN PdfStep(st, f, wrote) ELSE TextStep(st, f, wrote)

SetMergerState(st) ==
    /\ part_num' = st.part_num
    /\ current_content' = st.current_content
    /\ current_batch_size' = st.current_batch_size
    /\ files_in_batch' = st.files_in_batch
    /\ sealed' = st.sealed

\* the merger takes the next artifact
MergerAdd(f, wrote) ==
    /\ merger_pc = "run"
    /\ SetMergerState(MergeStep(MergerState, f, wrote))
    /\ handed' = Append(handed, f)
    /\ UNCHANGED <<ext, max_filesize_mb, merger_pc>>

\* no artifact is left: the final flush
MergerClose(wrote) ==
    /\ merger_pc = "run"
    /\ SetMergerState(FinalFlush(MergerState, wrote))
    /\ merger_pc' = "exit"
    /\ UNCHANGED <<ext, max_filesize_mb, handed>>

MergerStart(e, mb) ==
    /\ ext = e
    /\ max_filesize_mb = mb
    /\ part_num = 1
    /\ current_content = <<>>
    /\ current_batch_size = 0
    /\ files_in_batch = 0
    /\ sealed = <<>>
    /\ handed = <<>>
    /\ merger_pc = "run"

MergerIdle == MergerStart("txt", 0)

\* the sizes an artifact of the run can have, around the thresholds
FileSizes ==
    {n \in {0, (max_bytes \div 2) - sep_size, max_bytes \div 2, max_bytes - sep_size,
            max_bytes - sep_size + 1, max_bytes + 1} : n >= 0}

\* the artifacts that can come next: an empty PDF cannot be parsed
Artifacts ==
    {f \in [id : {Len(handed) + 1}, size : FileSizes, crlf : {0, 1},
             stat_ok : BOOLEAN, read_ok : BOOLEAN] :
        /\ (~f.stat_ok => (f.size = 0 /\ ~f.read_ok))
        /\ (ext = "pdf" /\ f.size = 0 => ~f.read_ok)
        /\ (f.crlf > 0 => (ext # "pdf" /\ f.read_ok /\ 2 * f.crlf <= f.size))}

(***************************************************************************)
(* fetcher.py: ContentFetcher.                                             *)
(***************************************************************************)
OutputTypes == {"pdf-rendered", "pdf-text", "txt", "md"}

MarkdownStrategies == {"only-html", "only-md", "prioritize-md"}

\* an operation is suspended in one of the awaited calls of _fetch_single:
\* client.head, client.get, context.new_page, page.goto, page.pdf, and
\* page.close after page.pdf has returned or after goto or pdf has failed
\* (open_page awaits page.close only for a page that is not closed yet).
\* The ways the awaited call can end; a write can fail after part of the file
\* is on disk, and page.goto returns without raising when the server answers
\* with an error status such as 404 (fetcher.py line 119 does not look at the
\* response)
Answers(stage) ==
    IF stage = "start" THEN {"none"}
    ELSE IF stage = "head" THEN {"200", "404", "error"}
    ELSE IF stage = "get" THEN {"text", "", "error"}
    ELSE IF stage = "pdf" THEN {"ok", "partial", "error"}
    ELSE IF stage = "goto" THEN {"ok", "404", "error"}
    ELSE {"ok", "error"}

\* what the disk does to write_text
SaveOutcomes == {"ok", "partial", "error"}

\* the answer to the awaited call, when content is saved how that goes, and
\* what page.is_closed() says when open_page is left after goto or pdf
\* (utils/playwright_utils.py line 71): a page that crashed, or whose browser
\* went away, is closed already
Envs(stage) ==
    {e \in [answer : Answers(stage), save : SaveOutcomes, closed : BOOLEAN] :
        /\ (stage # "get" \/ e.answer # "text") => e.save = "ok"
        /\ e.closed => \/ stage = "pdf"
                       \/ stage = "goto" /\ e.answer = "error"}

\* str.rstrip("/")
RECURSIVE RStripSlash(_)
RStripSlash(u) ==
    IF u # <<>> /\ u[Len(u)] = "/" THEN RStripSlash(SubSeq(u, 1, Len(u) - 1)) ELSE u

\* fetcher.py line 88
md_url(url) == RStripSlash(url) \o <<".", "m", "d">>

Request(method, target, answer) == [method |-> method, target |-> target, answer |-> answer]

\* ContentFetcher._resolve_target_url: the target and whether it is markdown,
\* given how the HEAD request for the .md resource was answered (it is sent
\* under prioritize-md only)
resolve_target_url(url, head) ==
    IF md_strategy = "only-html" THEN [target |-> url, is_md |-> FALSE]
    ELSE IF md_strategy = "only-md" THEN [target |-> md_url(url), is_md |-> TRUE]
    ELSE [target |-> IF head = "200" THEN md_url(url) ELSE url, is_md |-> (head = "200")]

RECURSIVE Pow10(_)
Pow10(k) == IF k = 0 THEN 1 ELSE 10 * Pow10(k - 1)

\* f"{i:05d}" for i below 100000: five decimal digits
Format05d(i) == [k \in 1..5 |-> (i \div Pow10(5 - k)) % 10]

\* a file name that keeps the tens of the index only
ChunkPath_tens(i, suffix) == [name |-> Format05d(i \div 10), suffix |-> suffix]

\* fetcher.py line 34 with the suffix the worker adds
ChunkPath(i, suffix) == [name |-> Format05d(i), suffix |-> suffix]

PathResult(u, path) == [tag |-> "path", url |-> u, links |-> {}, content |-> path]

\* the operation is suspended again, in the call next
FetchWait(next, reqs, file) ==
    [stage |-> next, requests |-> reqs, result |-> NoneResult, kind |-> "pending",
     file |-> file]

\* the operation has returned
FetchDone(result, reqs, kind, file) ==
    [stage |-> "done", requests |-> reqs, result |-> result, kind |-> kind, file |-> file]

\* a renderer whose missing context is not caught
rendered_pdf_start_raising(reqs) ==
    IF ~has_context THEN FetchDone(RaisedResult, reqs, "no_context", <<>>)
    ELSE FetchWait("new_page", reqs, <<>>)

\* _save_as_rendered_pdf up to its first await: without a browser context the
\* ValueError of line 116 is caught at line 75 and the operation returns None
rendered_pdf_start(reqs) ==
    IF ~has_context THEN FetchDone(NoneResult, reqs, "no_context", <<>>)
    ELSE FetchWait("new_page", reqs, <<>>)

\* ContentFetcher._fetch_single on the url at index idx, from the moment the
\* call it is suspended in ends (stage "start": from its beginning) to its
\* next await or its return: the call it waits in next, the requests
\* answered so far, the file written in this stretch if any and, at the
\* return, the value returned and what went wrong if anything
fetch_single(url, idx, stage, reqs, env) ==
    LET r == resolve_target_url(url, IF md_strategy = "prioritize-md"
                                     THEN reqs[1].answer ELSE "none")
        text_path == ChunkPath(idx, IF output_type = "md" THEN ".md" ELSE ".txt")
        pdf_path == ChunkPath(idx, ".pdf")
        Resolved(rq) ==
            IF output_type = "pdf-rendered" THEN rendered_pdf_start(rq)
            ELSE FetchWait("get", rq, <<>>)
    IN CASE stage = "start" ->
              IF md_strategy = "prioritize-md" THEN FetchWait("head", reqs, <<>>)
              ELSE Resolved(reqs)
         [] stage = "head" ->
              Resolved(Append(reqs, Request("HEAD", md_url(url), env.answer)))
         [] stage = "get" ->
              LET got == Append(reqs, Request("GET", r.target, env.answer))
              IN IF env.answer = "error" THEN FetchDone(NoneResult, got, "download", <<>>)
                 ELSE IF env.answer = "" THEN FetchDone(NoneResult, got, "empty", <<>>)
                 ELSE IF env.save = "error" THEN FetchDone(NoneResult, got, "save", <<>>)
                 ELSE IF env.save = "partial"
                 THEN FetchDone(NoneResult, got, "save", <<text_path>>)
                 ELSE FetchDone(PathResult(url, text_path), got, "ok", <<text_path>>)
         [] stage = "new_page" ->
              IF env.answer = "ok" THEN FetchWait("goto", reqs, <<>>)
              ELSE FetchDone(NoneResult, reqs, "render", <<>>)
         [] stage = "goto" ->
              LET went == Append(reqs, Request("GOTO", r.target, env.answer))
              IN IF env.answer \in {"ok", "404"} THEN FetchWait("pdf", went, <<>>)
                 ELSE IF env.closed THEN FetchDone(NoneResult, went, "render", <<>>)
                 ELSE FetchWait("close_after_error", went, <<>>)
         [] stage = "pdf" ->
              LET written == IF env.answer = "error" THEN <<>> ELSE <<pdf_path>>
              IN IF env.answer = "ok"
                 THEN IF env.closed
                      THEN FetchDone(PathResult(url, pdf_path), reqs, "ok", written)
                      ELSE FetchWait("close_after_pdf", reqs, written)
                 ELSE IF env.closed THEN FetchDone(NoneResult, reqs, "render", written)
                 ELSE FetchWait("close_after_error", reqs, written)
         [] stage = "close_after_pdf" ->
              IF env.answer = "ok" THEN FetchDone(PathResult(url, pdf_path), reqs, "ok", <<>>)
              ELSE FetchDone(NoneResult, reqs, "close", <<>>)
         [] stage = "close_after_error" ->
              FetchDone(NoneResult, reqs, "render", <<>>)

FetchIdle ==
    /\ output_type = "txt"
    /\ md_strategy = "only-html"
    /\ has_context = FALSE
    /\ requests = <<>>
    /\ fstage = <<>>
    /\ temp_dir = <<>>

\* what a stretch of operation i leaves behind; held tells whether the
\* operation holds a permit of the semaphore when the stretch begins
FetchApply(i, o, held) ==
    /\ requests' = [requests EXCEPT ![i] = o.requests]
    /\ fstage' = [fstage EXCEPT ![i] = o.stage]
    /\ temp_dir' = temp_dir \o [k \in 1..Len(o.file) |-> [path |-> o.file[k], by |-> i]]
    /\ IF o.stage = "done"
       THEN /\ tpc' = [tpc EXCEPT ![i] = "done"]
            /\ tres' = [tres EXCEPT ![i] = o.result]
            /\ tkind' = [tkind EXCEPT ![i] = o.kind]
            /\ completed' = Append(completed, i)
            /\ sem' = IF limit > 0 /\ held THEN sem + 1 ELSE sem
       ELSE /\ tpc' = [tpc EXCEPT ![i] = "running"]
            /\ sem' = IF limit > 0 /\ ~held THEN sem - 1 ELSE sem
            /\ UNCHANGED <<tres, tkind, completed>>
    /\ UNCHANGED <<tasks, limit, gather, output_type, md_strategy, has_context>>

\* worker(task) takes a permit (when there is a semaphore) and the operation
\* runs to its first await; enumerate counts from 0
FetchEnter(i) ==
    /\ gather \in {"waiting", "raised"}
    /\ tpc[i] = "pending"
    /\ CanEnter
    /\ \E env \in Envs("start") :
          FetchApply(i, fetch_single(tasks[i], i - 1, "start", requests[i], env), FALSE)

\* the call operation i is suspended in ends and the operation runs on
FetchResume(i) ==
    /\ tpc[i] = "running"
    /\ \E env \in Envs(fstage[i]) :
          FetchApply(i, fetch_single(tasks[i], i - 1, fstage[i], requests[i], env), TRUE)

\* fetcher.py line 42: the paths process_urls returns
ProcessUrlsResult == NotNone(GatherResults)

(***************************************************************************)
(* main.py: run_process, with the crawler task, the fetch workers and the  *)
(* merger task it starts.                                                  *)
(***************************************************************************)
NoneItem == [tag |-> "None", url |-> <<>>, content |-> "None"]

NoneArtifact == [tag |-> "None", size |-> 0, crlf |-> 0, stat_ok |-> FALSE, read_ok |-> FALSE]

Workers == DOMAIN wpc

RECURSIVE Repeat(_, _)
Repeat(x, n) == IF n <= 0 THEN <<>> ELSE <<x>> \o Repeat(x, n - 1)

\* main.py line 79: range(config.concurrency_limit - 1)
ExtraSentinels(lim) == lim - 1

\* main.py line 83: asyncio.gather(*fetcher_tasks) returns when every fetcher
\* task has returned
FetchersDone == \A w \in Workers : wpc[w] = "exit"

\* main.py line 83: asyncio.gather(*fetcher_tasks) raises when a fetcher task
\* has raised
FetchersRaised == \E w \in Workers : wpc[w] = "raised"

\* every fetcher task has taken its first step; the tasks stand in the event
\* loop's queue from lines 65-68 on, before anything the crawler task starts
FetchersLaunched == \A w \in Workers : wpc[w] # "idle"

PipeIdle ==
    /\ main_pc = "idle"
    /\ wpc = <<>>
    /\ merge_queue = <<>>
    /\ sentinels_put = 0
    /\ merge_sentinels = 0

\* the crawler task ends: crawl_for_urls has returned, one None goes on the
\* fetch queue
RunCrawlerFinish ==
    /\ crawl_pc = "returned"
    /\ crawl_pc' = "done"
    /\ fetch_queue' = Append(fetch_queue, NoneItem)
    /\ sentinels_put' = sentinels_put + 1
    /\ UNCHANGED <<start_url, allowed_prefixes, max_urls, max_depth,
                   web, pages, discovered, queue, depth,
                   crawl_ret, fetch_count, visited_count>>
    /\ UNCHANGED <<limVars, mergeVars, main_pc, wpc, merge_queue, merge_sentinels>>
    /\ UNCHANGED fetchVars

\* main.py lines 56-63, launch_fetcher: the task's first step compares
\* config.output_type with OutputType.PDF, a member config.py does not
\* define, so the task ends with AttributeError before run_fetcher_worker is
\* called, whatever the output type. The tasks run in the order in which
\* lines 65-68 created them.
LaunchFetcher(w) ==
    /\ wpc[w] = "idle"
    /\ \A v \in Workers : v < w => wpc[v] # "idle"
    /\ wpc' = [wpc EXCEPT ![w] = "raised"]
    /\ UNCHANGED <<limVars, crawlVars, mergeVars, fetch_queue, main_pc, merge_queue,
                   sentinels_put, merge_sentinels>>
    /\ UNCHANGED fetchVars

\* the merger dequeues: a None makes it flush and exit, an artifact is added
MergerGet ==
    /\ merge_queue # <<>>
    /\ merge_queue' = Tail(merge_queue)
    /\ LET a == Head(merge_queue)
       IN \E wrote \in BOOLEAN :
             IF a.tag = "None"
             THEN MergerClose(wrote)
             ELSE MergerAdd([id |-> Len(handed) + 1, size |-> a.size, crlf |-> a.crlf,
                             stat_ok |-> a.stat_ok, read_ok |-> a.read_ok], wrote)
    /\ UNCHANGED <<limVars, crawlVars, fetch_queue, main_pc, wpc, sentinels_put,
                   merge_sentinels>>
    /\ UNCHANGED fetchVars

\* main.py lines 75-80: the crawler task is over, signal the fetchers
MainSignalFetchers ==
    /\ main_pc = "await_crawler"
    /\ crawl_pc = "done"
    /\ FetchersLaunched
    /\ fetch_queue' = fetch_queue \o Repeat(NoneItem, ExtraSentinels(limit))
    /\ sentinels_put' = sentinels_put + Len(Repeat(NoneItem, ExtraSentinels(limit)))
    /\ main_pc' = "await_fetchers"
    /\ UNCHANGED <<limVars, crawlVars, mergeVars, wpc, merge_queue, merge_sentinels>>
    /\ UNCHANGED fetchVars

\* main.py line 83: gather re-raises the exception of a fetcher task and
\* run_process ends with it; lines 84-91 are not reached, nothing is put on
\* the merge queue and the merger task is left waiting
MainGatherRaises ==
    /\ main_pc = "await_fetchers"
    /\ FetchersRaised
    /\ main_pc' = "raised"
    /\ UNCHANGED <<limVars, crawlVars, mergeVars, fetch_queue, wpc, merge_queue,
                   sentinels_put, merge_sentinels>>
    /\ UNCHANGED fetchVars

\* main.py lines 83-87: the fetchers are over, signal the merger
MainSignalMerger ==
    /\ main_pc = "await_fetchers"
    /\ FetchersDone
    /\ merge_queue' = Append(merge_queue, NoneArtifact)
    /\ merge_sentinels' = merge_sentinels + 1
    /\ main_pc' = "await_merger"
    /\ UNCHANGED <<limVars, crawlVars, mergeVars, fetch_queue, wpc, sentinels_put>>
    /\ UNCHANGED fetchVars

\* main.py lines 90-91: the merger task is over
MainFinish ==
    /\ main_pc = "await_merger"
    /\ merger_pc = "exit"
    /\ main_pc' = "done"
    /\ UNCHANGED <<limVars, crawlVars, mergeVars, fetch_queue, wpc, merge_queue,
                   sentinels_put, merge_sentinels>>
    /\ UNCHANGED fetchVars

(***************************************************************************)
(* The limiter on its own.                                                 *)
(***************************************************************************)
LimInit ==
    /\ \E n \in 0..MaxTasks, lim \in 0..MaxLimit :
          /\ tasks = SubSeq(UrlList, 1, n)
          /\ limit = lim
          /\ sem = SemInitial(lim)
          /\ tpc = [i \in 1..n |-> "pending"]
          /\ tres = [i \in 1..n |-> NoneResult]
          /\ tkind = [i \in 1..n |-> "pending"]
          /\ gather = IF n = 0 THEN "returned" ELSE "waiting"
          /\ completed = <<>>
    /\ CrawlIdle
    /\ MergerIdle
    /\ PipeIdle
    /\ fetch_queue = <<>>
    /\ FetchIdle

LimEnterStep ==
    /\ \E i \in DOMAIN tpc : LimEnter(i)
    /\ UNCHANGED <<start_url, allowed_prefixes, max_urls, max_depth,
                   web, pages, discovered, queue, depth,
                   crawl_pc, crawl_ret, visited_count, fetch_queue>>
    /\ UNCHANGED mergeVars
    /\ UNCHANGED pipeVars
    /\ UNCHANGED fetchVars

LimFinishStep ==
    /\ \E i \in DOMAIN tpc : LimFinish(i)
    /\ UNCHANGED <<start_url, allowed_prefixes, max_urls, max_depth,
                   web, pages, discovered, queue, depth,
                   crawl_pc, crawl_ret, fetch_count, fetch_queue>>
    /\ UNCHANGED mergeVars
    /\ UNCHANGED pipeVars
    /\ UNCHANGED fetchVars

LimGatherStep ==
    /\ LimGather
    /\ UNCHANGED crawlVars
    /\ UNCHANGED fetch_queue
    /\ UNCHANGED mergeVars
    /\ UNCHANGED pipeVars
    /\ UNCHANGED fetchVars

LimNext == LimEnterStep \/ LimFinishStep \/ LimGatherStep

SpecLim == LimInit /\ [][LimNext]_vars

\* the event loop runs every operation that can take a step
FairSpecLim == SpecLim /\ WF_vars(LimNext)

(***************************************************************************)
(* The fetch stage on its own: one call of process_urls.                   *)
(***************************************************************************)
FetchInit ==
    /\ \E n \in 0..MaxItems, lim \in 0..MaxLimit :
          /\ tasks = SubSeq(UrlList, 1, n)
          /\ limit = lim
          /\ sem = SemInitial(lim)
          /\ tpc = [i \in 1..n |-> "pending"]
          /\ tres = [i \in 1..n |-> NoneResult]
          /\ tkind = [i \in 1..n |-> "pending"]
          /\ gather = IF n = 0 THEN "returned" ELSE "waiting"
          /\ completed = <<>>
          /\ requests = [i \in 1..n |-> <<>>]
          /\ fstage = [i \in 1..n |-> "start"]
    /\ output_type \in OutputTypes
    /\ md_strategy \in MarkdownStrategies
    /\ has_context \in BOOLEAN
    /\ temp_dir = <<>>
    /\ CrawlIdle
    /\ MergerIdle
    /\ PipeIdle
    /\ fetch_queue = <<>>

FetchEnterStep ==
    /\ \E i \in DOMAIN tpc : FetchEnter(i)
    /\ UNCHANGED <<crawlVars, fetch_queue, mergeVars, pipeVars>>

FetchResumeStep ==
    /\ \E i \in DOMAIN tpc : FetchResume(i)
    /\ UNCHANGED <<crawlVars, fetch_queue, mergeVars, pipeVars>>

FetchNext == FetchEnterStep \/ FetchResumeStep \/ LimGatherStep

SpecFetch == FetchInit /\ [][FetchNext]_vars

(***************************************************************************)
(* The crawl on its own.                                                   *)
(***************************************************************************)
CrawlInit ==
    /\ \E prefixes \in AllowLists, m \in 0..MaxUrls, d \in 0..MaxDepth :
          CrawlStart(UrlA, prefixes, m, d, Universe)
    /\ tasks = <<>>
    /\ limit \in 1..MaxLimit
    /\ sem = 0
    /\ tpc = <<>>
    /\ tres = <<>>
    /\ tkind = <<>>
    /\ gather = "idle"
    /\ completed = <<>>
    /\ fetch_queue = <<>>
    /\ MergerIdle
    /\ PipeIdle
    /\ FetchIdle

CrawlNext ==
    \/ CrawlDispatch
    \/ LimEnterStep
    \/ LimFinishStep
    \/ LimGatherStep
    \/ CrawlAggregate
    \/ CrawlReturn

SpecCrawl == CrawlInit /\ [][CrawlNext]_vars

\* the event loop runs the crawl and its fetches whenever one can take a step
FairSpecCrawl == SpecCrawl /\ WF_vars(CrawlNext)

(***************************************************************************)
(* The crawl on a site whose pages link to the same page under several      *)
(* spellings: plain, with a trailing slash, with a fragment.                *)
(***************************************************************************)
RawLinks ==
    { UrlAX, UrlAX \o <<"/">>, UrlAX \o <<"#", "f">>, UrlAX \o <<"?">>,
      <<" ">> \o UrlAX \o <<" ">>, <<"#", "f">>,
      <<"/", "/", "h", ".", "t", "e", "s", "t", "/", "a", "x">>,
      <<"M", "A", "I", "L", "T", "O", ":", "a">> }

LinksInit ==
    /\ \E d \in 0..MaxDepth : CrawlStart(UrlA, <<UrlA>>, MaxUrls, d, RawLinks)
    /\ tasks = <<>>
    /\ limit \in 1..MaxLimit
    /\ sem = 0
    /\ tpc = <<>>
    /\ tres = <<>>
    /\ tkind = <<>>
    /\ gather = "idle"
    /\ completed = <<>>
    /\ fetch_queue = <<>>
    /\ MergerIdle
    /\ PipeIdle
    /\ FetchIdle

SpecLinks == LinksInit /\ [][CrawlNext]_vars

(***************************************************************************)
(* The crawl on a fixed site: a links to ax and ay, ax links to b, ay and b *)
(* link to nothing, every fetch succeeds, the allow-list covers all four.  *)
(***************************************************************************)
GraphLinks == (UrlA :> {UrlAX, UrlAY}) @@ (UrlAX :> {UrlB}) @@ (UrlAY :> {}) @@ (UrlB :> {})

GraphPages ==
    [u \in Universe |->
        {[kind |-> "html", links |-> GraphLinks[u], text |-> "text", url |-> u]}]

GraphInit ==
    /\ \E m \in 0..MaxUrls, d \in 0..MaxDepth :
          CrawlStartOn(UrlA, <<UrlA, UrlB>>, m, d, Universe, GraphPages)
    /\ tasks = <<>>
    /\ limit \in 0..MaxLimit
    /\ sem = 0
    /\ tpc = <<>>
    /\ tres = <<>>
    /\ tkind = <<>>
    /\ gather = "idle"
    /\ completed = <<>>
    /\ fetch_queue = <<>>
    /\ MergerIdle
    /\ PipeIdle
    /\ FetchIdle

SpecGraph == GraphInit /\ [][CrawlNext]_vars

\* the same site when a fetch can also fail (http status, transport error,
\* anything else raised) or be answered with something that is not HTML
FlakyPages ==
    [u \in Universe |->
        GraphPages[u] \cup {r \in Responses(u) : r.kind # "html" /\ r.url = u}]

FlakyInit ==
    /\ \E m \in 0..MaxUrls, d \in 0..MaxDepth :
          CrawlStartOn(UrlA, <<UrlA, UrlB>>, m, d, Universe, FlakyPages)
    /\ tasks = <<>>
    /\ limit \in 0..MaxLimit
    /\ sem = 0
    /\ tpc = <<>>
    /\ tres = <<>>
    /\ tkind = <<>>
    /\ gather = "idle"
    /\ completed = <<>>
    /\ fetch_queue = <<>>
    /\ MergerIdle
    /\ PipeIdle
    /\ FetchIdle

SpecFlaky == FlakyInit /\ [][CrawlNext]_vars

(***************************************************************************)
(* The merger on its own: any sequence of artifacts, then the final flush. *)
(***************************************************************************)
MergeInit ==
    /\ \E e \in {"txt", "pdf"} : MergerStart(e, 1)
    /\ LimIdle
    /\ CrawlIdle
    /\ PipeIdle
    /\ fetch_queue = <<>>
    /\ FetchIdle

MergeAddStep ==
    /\ Len(handed) < MaxFiles
    /\ \E f \in Artifacts, wrote \in BOOLEAN : MergerAdd(f, wrote)
    /\ UNCHANGED <<limVars, crawlVars, fetch_queue, pipeVars>>
    /\ UNCHANGED fetchVars

MergeCloseStep ==
    /\ \E wrote \in BOOLEAN : MergerClose(wrote)
    /\ UNCHANGED <<limVars, crawlVars, fetch_queue, pipeVars>>
    /\ UNCHANGED fetchVars

MergeNext == MergeAddStep \/ MergeCloseStep

SpecMerge == MergeInit /\ [][MergeNext]_vars

(***************************************************************************)
(* The PDF merger on a long run of small documents.                        *)
(***************************************************************************)
PdfCapInit ==
    /\ \E mb \in 1..2 : MergerStart("pdf", mb)
    /\ LimIdle
    /\ CrawlIdle
    /\ PipeIdle
    /\ fetch_queue = <<>>
    /\ FetchIdle

\* the next document: one byte on disk, readable
PdfCapAddStep ==
    /\ Len(handed) < MaxPdfFiles
    /\ \E wrote \in BOOLEAN :
          MergerAdd([id |-> Len(handed) + 1, size |-> 1, crlf |-> 0,
                     stat_ok |-> TRUE, read_ok |-> TRUE], wrote)
    /\ UNCHANGED <<limVars, crawlVars, fetch_queue, pipeVars>>
    /\ UNCHANGED fetchVars

PdfCapNext == PdfCapAddStep \/ MergeCloseStep

SpecPdfCap == PdfCapInit /\ [][PdfCapNext]_vars

(***************************************************************************)
(* The text merger on ten artifacts of 10 MB each with 25 MB per bundle.   *)
(***************************************************************************)
TenInit ==
    /\ MergerStart("txt", 25)
    /\ LimIdle
    /\ CrawlIdle
    /\ PipeIdle
    /\ fetch_queue = <<>>
    /\ FetchIdle

TenAddStep ==
    /\ Len(handed) < 10
    /\ \E wrote \in BOOLEAN :
          MergerAdd([id |-> Len(handed) + 1, size |-> 10 * 1024 * 1024, crlf |-> 0,
                     stat_ok |-> TRUE, read_ok |-> TRUE], wrote)
    /\ UNCHANGED <<limVars, crawlVars, fetch_queue, pipeVars>>
    /\ UNCHANGED fetchVars

TenNext == TenAddStep \/ MergeCloseStep

SpecTen == TenInit /\ [][TenNext]_vars

(***************************************************************************)
(* The whole pipeline.                                                     *)
(***************************************************************************)
PipeInit ==
    /\ \E d \in 0..MaxDepth : CrawlStart(UrlA, <<UrlA>>, MaxUrls, d, {UrlA, UrlAX})
    /\ limit \in 0..MaxLimit
    /\ tasks = <<>>
    /\ sem = 0
    /\ tpc = <<>>
    /\ tres = <<>>
    /\ tkind = <<>>
    /\ gather = "idle"
    /\ completed = <<>>
    /\ fetch_queue = <<>>
    /\ MergerStart("txt", 1)
    /\ main_pc = "await_crawler"
    /\ wpc = [w \in 1..limit |-> "idle"]
    /\ merge_queue = <<>>
    /\ sentinels_put = 0
    /\ merge_sentinels = 0
    /\ FetchIdle

LaunchFetcherStep == \E w \in Workers : LaunchFetcher(w)

\* the operations of the crawler's gather are started after the fetcher tasks
PipeEnterStep == FetchersLaunched /\ LimEnterStep

PipeNext ==
    \/ CrawlDispatch
    \/ PipeEnterStep
    \/ LimFinishStep
    \/ LimGatherStep
    \/ CrawlAggregate
    \/ CrawlReturn
    \/ RunCrawlerFinish
    \/ LaunchFetcherStep
    \/ MergerGet
    \/ MainSignalFetchers
    \/ MainGatherRaises
    \/ MainSignalMerger
    \/ MainFinish

SpecPipe == PipeInit /\ [][PipeNext]_vars

\* the event loop runs every task that can take a step
FairSpecPipe == SpecPipe /\ WF_vars(PipeNext)

(***************************************************************************)
(* Properties of the pipeline's shutdown protocol.                         *)
(***************************************************************************)
ErrorKinds == {"http_error", "request_error", "unexpected"}

\* the ids of the artifacts a bundle content holds
ItemIds(content) == {content[i].id : i \in {j \in 1..Len(content) : content[j].t = "item"}}

SealedIds == UNION {ItemIds(sealed[k].content) : k \in 1..Len(sealed)}

\* the artifacts the merger could stat and read
ReadableIds == {handed[i].id : i \in {j \in 1..Len(handed) :
                                        handed[j].stat_ok /\ handed[j].read_ok}}

PipelineDrained ==
    /\ main_pc = "done"
    /\ crawl_pc = "done"
    /\ \A w \in Workers : wpc[w] = "exit"
    /\ merger_pc = "exit"
    /\ merge_queue = <<>>
    /\ ReadableIds \subseteq SealedIds

\* C1: every run of the pipeline with at least one fetch worker, whatever
\* fails on single items, reaches the state where the crawler is done, every
\* fetch worker has exited, the merger has taken its shutdown signal and
\* exited, and no artifact the merger accepted is left unsealed.
C1_ShutdownCompleteness == (limit >= 1) => <>PipelineDrained

\* C2: with at least one worker, the None values put on the fetch queue never
\* outnumber the workers, they number exactly config.concurrency_limit once
\* run_process has signalled the fetchers, and when run_process is over every
\* one of them has been dequeued: no None is left on the fetch queue.
C2_OneSentinelPerWorker ==
    (limit >= 1) =>
        /\ sentinels_put <= limit
        /\ (main_pc \in {"await_fetchers", "await_merger", "raised", "done"} =>
               sentinels_put = limit)
        /\ (main_pc \in {"await_merger", "raised", "done"} =>
               \A k \in 1..Len(fetch_queue) : fetch_queue[k].tag # "None")

\* C3: at most one None is ever put on the merge queue, it is put only when
\* every fetch worker has exited, no artifact stands behind it in the merge
\* queue, and when run_process is over exactly one has been put.
C3_MergerSignalledLast ==
    /\ merge_sentinels <= 1
    /\ (merge_sentinels = 1 => \A w \in Workers : wpc[w] = "exit")
    /\ \A i \in 1..Len(merge_queue) :
          merge_queue[i].tag = "None" => i = Len(merge_queue)
    /\ (main_pc \in {"await_merger", "raised", "done"} => merge_sentinels = 1)

(***************************************************************************)
(* Properties of the crawl.                                                *)
(***************************************************************************)
NotDone == {i \in DOMAIN tpc : tpc[i] # "done"}

\* the allow-list test, stated character by character
MatchesAllowList(u) ==
    \E p \in Range(allowed_prefixes) :
        /\ Len(p) <= Len(u)
        /\ \A k \in 1..Len(p) : u[k] = p[k]

Fetched == {u \in DOMAIN fetch_count : fetch_count[u] > 0}

\* C4: the number of urls fetched so far never exceeds max_urls, and a round
\* in flight never holds more fetches than the budget has left.
C4_BudgetRespected ==
    /\ visited_count <= max_urls
    /\ (crawl_pc = "await" => visited_count + Cardinality(NotDone) <= max_urls)

\* C5 as stated: discovered only grows, no url is dispatched twice, and a url
\* whose fetch is running has already left the queue and never comes back.
C5_RemovedBeforeFetch ==
    [][ /\ discovered \subseteq discovered'
        /\ \A u \in Universe : fetch_count'[u] <= 1
        /\ \A i \in DOMAIN tpc' : tpc'[i] = "running" => tasks'[i] \notin queue'
        /\ \A u \in Universe : (fetch_count[u] >= 1 /\ u \notin queue) => u \notin queue'
      ]_vars

\* C5 as amended: discovered only grows, no url is dispatched twice; a url
\* stays in the queue while its round is fetched, the queue at the top of the
\* loop holds only urls never fetched, and a fetched url that has left the
\* queue never comes back.
C5_FrontierMonotone ==
    [][ /\ discovered \subseteq discovered'
        /\ \A u \in Universe : fetch_count'[u] <= 1
        /\ (crawl_pc' = "loop" => \A u \in queue' : fetch_count'[u] = 0)
        /\ \A u \in Universe : (fetch_count[u] >= 1 /\ u \notin queue) => u \notin queue'
      ]_vars

\* after two rounds, a page of the last round linked back to the seed, which
\* passes the filter, and the seed was not queued again
C5_Witness ==
    /\ crawl_pc = "loop"
    /\ depth >= 2
    /\ MatchesAllowList(start_url)
    /\ \E i \in DOMAIN tres : start_url \in tres[i].links
    /\ start_url \notin queue
    /\ fetch_count[start_url] = 1
    /\ Cardinality(discovered) >= 3

\* C6: every url that is discovered, queued or fetched, the seed apart,
\* starts with one of the allowed prefixes.
C6_AllowListFiltering ==
    \A u \in (discovered \cup queue \cup Fetched) \ {start_url} : MatchesAllowList(u)

\* a round whose pages linked to a url inside and to a url outside the
\* allow-list: the first was discovered, the second was not
C6_Witness ==
    /\ crawl_pc = "loop"
    /\ depth >= 1
    /\ \E i \in DOMAIN tres :
          /\ \E u \in tres[i].links : ~MatchesAllowList(u) /\ u \notin discovered
          /\ \E u \in tres[i].links : u # start_url /\ u \in discovered /\ u \in queue

\* C14: the crawl loop stops, and when it stops the queue is empty or at
\* least max_urls fetches have been made.
C14_CrawlTerminates ==
    <>(crawl_pc = "returned" /\ (queue = {} \/ visited_count >= max_urls))

\* C15: on the fixed site with max_urls = 3 the crawl fetches a, ax and ay and
\* no other url, and returns all four urls as discovered.
C15_UnfetchedStayDiscovered ==
    (crawl_pc = "returned" /\ max_urls = 3) =>
        /\ Fetched = {UrlA, UrlAX, UrlAY}
        /\ visited_count = 3
        /\ crawl_ret = {UrlA, UrlAX, UrlAY, UrlB}

\* the fetches of the round last gathered that failed or answered with
\* something other than HTML
FailedInRound == {i \in DOMAIN tasks : tkind[i] \in ErrorKinds \cup {"other"}}

\* the budget of max_urls is used up, but only when the failed and non-HTML
\* fetches of the round last gathered are counted in
BudgetSpentByFailures ==
    /\ FailedInRound # {}
    /\ visited_count >= max_urls
    /\ visited_count - Cardinality(FailedInRound) < max_urls

\* C16, the parts about what a failed fetch leaves behind: a fetch that
\* fails, or that answers with something other than HTML, gives no links and
\* no content, puts nothing on the fetch queue, adds nothing to the next
\* round, and no url is fetched a second time
C16_FailedFetchGivesNothing ==
    [][ /\ \A i \in DOMAIN tpc :
              (tpc[i] = "running" /\ i \in DOMAIN tpc' /\ tpc'[i] = "done"
                  /\ tkind'[i] \in ErrorKinds \cup {"other"}) =>
                  /\ tres'[i].links = {}
                  /\ tres'[i].content = "None"
        /\ (crawl_pc = "await" /\ crawl_pc' = "loop") =>
              /\ \A k \in (Len(fetch_queue) + 1)..Len(fetch_queue') :
                    \E i \in DOMAIN tasks :
                        tkind[i] = "html" /\ fetch_queue'[k].url = tres[i].url
              /\ queue' \subseteq
                    UNION {tres[i].links : i \in {j \in DOMAIN tasks : tkind[j] = "html"}}
        /\ \A u \in Universe : fetch_count'[u] <= 1
      ]_vars

\* C16: a fetch that fails, or that answers with something other than HTML,
\* gives no links and no content, is never fetched a second time, and still
\* counts as one url against the budget of max_urls: when the fetches
\* completed so far reach max_urls once the failed and non-HTML fetches of
\* the last round are counted in, the loop dispatches no further round.
C16_FailedFetchCounted ==
    [][ /\ \A i \in DOMAIN tpc :
              (tpc[i] = "running" /\ i \in DOMAIN tpc' /\ tpc'[i] = "done"
                  /\ tkind'[i] \in ErrorKinds \cup {"other"}) =>
                  /\ tres'[i].links = {}
                  /\ tres'[i].content = "None"
        /\ \A u \in Universe : fetch_count'[u] <= 1
        /\ (crawl_pc = "loop" /\ crawl_pc' = "await") => ~BudgetSpentByFailures
      ]_vars

\* C17: the seed is in discovered from the start and is the one url fetched
\* in the first round, whether or not it matches the allow-list; any other
\* url is in discovered only if it matches.
C17_SeedExempt ==
    /\ start_url \in discovered
    /\ (crawl_pc = "await" /\ depth = 0 => tasks = <<start_url>>)
    /\ (depth >= 1 => fetch_count[start_url] = 1)
    /\ \A u \in discovered : u = start_url \/ MatchesAllowList(u)

\* a seed outside the allow-list was fetched; of its links the one inside the
\* allow-list was accepted, the one outside was not
C17_Witness ==
    /\ ~MatchesAllowList(start_url)
    /\ depth = 1
    /\ crawl_pc = "loop"
    /\ fetch_count[start_url] = 1
    /\ tasks = <<start_url>>
    /\ \E u \in tres[1].links : u # start_url /\ ~MatchesAllowList(u) /\ u \notin discovered
    /\ \E u \in tres[1].links : MatchesAllowList(u) /\ u \in discovered

\* C18: the queue is always within discovered; discovered changes only when
\* a round is aggregated, and what is added then is exactly the new queue,
\* none of which was in discovered before.
C18_QueueWithinDiscovered ==
    /\ queue \subseteq discovered
    /\ [][ /\ queue' \subseteq discovered'
            /\ IF crawl_pc = "await" /\ crawl_pc' = "loop"
               THEN /\ discovered' \ discovered = queue'
                    /\ queue' \cap discovered = {}
                    /\ discovered \subseteq discovered'
               ELSE discovered' = discovered
          ]_vars

\* a round ended whose pages linked to a url discovered earlier and to a new
\* one: only the new one is queued
C18_Witness ==
    /\ crawl_pc = "loop"
    /\ depth >= 1
    /\ queue # {}
    /\ \E i \in DOMAIN tres :
          /\ \E u \in tres[i].links : u \in discovered \ queue /\ MatchesAllowList(u)
          /\ \E u \in tres[i].links : u \in queue

(***************************************************************************)
(* Properties of the merger.                                               *)
(***************************************************************************)
ItemsOf(content) == {j \in 1..Len(content) : content[j].t = "item"}

\* the bytes a bundle content comes to when written out
EncodedSize(content) == SeqSum([j \in 1..Len(content) |-> content[j].bytes])

\* C7 as stated: a sealed bundle is at most max_bytes long, unless it holds a
\* single artifact whose own size exceeds max_bytes.
C7_OnlyOversizedArtifactExceeds ==
    \A k \in 1..Len(sealed) :
        \/ EncodedSize(sealed[k].content) <= max_bytes
        \/ /\ Cardinality(ItemsOf(sealed[k].content)) = 1
           /\ \E j \in ItemsOf(sealed[k].content) : sealed[k].content[j].bytes > max_bytes

\* C7 as amended: a sealed bundle is at most max_bytes long, unless it holds a
\* single artifact; a text bundle of one artifact exceeds max_bytes exactly when
\* the artifact's bytes plus one separator do.
C7_BundleSizeInvariant ==
    \A k \in 1..Len(sealed) :
        \/ EncodedSize(sealed[k].content) <= max_bytes
        \/ /\ Cardinality(ItemsOf(sealed[k].content)) = 1
           /\ \E j \in ItemsOf(sealed[k].content) :
                 sealed[k].content[j].bytes + (IF ext = "pdf" THEN 0 ELSE sep_size) > max_bytes

\* a text bundle of two artifacts that fills max_bytes to the byte, sealed
\* because the third artifact did not fit
C7_Witness ==
    /\ ext = "txt"
    /\ max_bytes > 0
    /\ Len(sealed) >= 1
    /\ Cardinality(ItemsOf(sealed[1].content)) = 2
    /\ EncodedSize(sealed[1].content) = max_bytes
    /\ part_num = 2
    /\ Len(current_content) > 0

\* how many places of the sealed bundles hold artifact id
Occurrences(id) ==
    Cardinality({<<k, j>> \in (1..Len(sealed)) \X (1..(2 * MaxFiles + 2)) :
                    /\ j <= Len(sealed[k].content)
                    /\ sealed[k].content[j].t = "item"
                    /\ sealed[k].content[j].id = id})

\* C8: once the merger has finished, every artifact it could read stands in
\* exactly one sealed bundle, at one place, and an artifact it could not read
\* stands in none.
C8_EachArtifactSealedOnce ==
    merger_pc = "exit" =>
        \A i \in 1..Len(handed) :
            Occurrences(handed[i].id) =
                (IF handed[i].stat_ok /\ handed[i].read_ok THEN 1 ELSE 0)

\* a finished merge of three readable artifacts in two bundles, the second
\* sealed by the final flush
C8_Witness ==
    /\ merger_pc = "exit"
    /\ Len(handed) = 3
    /\ \A i \in 1..Len(handed) : handed[i].stat_ok /\ handed[i].read_ok /\ handed[i].size > 0
    /\ Len(sealed) = 2
    /\ Cardinality(ItemsOf(sealed[1].content)) = 2

\* the artifacts the merger could read whose size alone exceeds max_bytes
OversizedIds ==
    {handed[i].id : i \in {j \in 1..Len(handed) :
        handed[j].stat_ok /\ handed[j].read_ok /\ handed[j].size > max_bytes}}

\* C11 as stated: an artifact larger than max_bytes is sealed, alone in its
\* bundle, by the add that appended it, so that the buffer is empty before the
\* next add or close.
C11_SealedByItsOwnAdd ==
    \A id \in OversizedIds :
        /\ \E k \in 1..Len(sealed) : ItemIds(sealed[k].content) = {id}
        /\ (merger_pc = "run" => id \notin ItemIds(current_content))

\* C11 as amended: an artifact larger than max_bytes is never dropped and never
\* shares a bundle; it waits alone in the buffer after its add, and the next
\* add whose file can be stat'ed, or close, seals it before anything else is
\* appended.
C11_OversizedAlone ==
    [][ \A i \in 1..Len(handed') :
          LET f == handed'[i]
          IN (f.stat_ok /\ f.read_ok /\ f.size > max_bytes) =>
                /\ \/ \E k \in 1..Len(sealed') : ItemIds(sealed'[k].content) = {f.id}
                   \/ ItemIds(current_content') = {f.id}
                /\ \A k \in 1..Len(sealed') :
                      f.id \in ItemIds(sealed'[k].content)
                          => ItemIds(sealed'[k].content) = {f.id}
                /\ (f.id \in ItemIds(current_content') => ItemIds(current_content') = {f.id})
                /\ (i <= Len(handed) /\ f.id \in ItemIds(current_content)) =>
                      \/ \E k \in 1..Len(sealed') : ItemIds(sealed'[k].content) = {f.id}
                      \/ /\ current_content' = current_content
                         /\ ~handed'[Len(handed')].stat_ok
      ]_vars

\* an oversized artifact between two small ones: it was sealed alone as part 2
\* when the third artifact arrived
C11_Witness ==
    /\ Len(handed) = 3
    /\ handed[2].id \in OversizedIds
    /\ Len(sealed) = 2
    /\ ItemIds(sealed[1].content) = {handed[1].id}
    /\ ItemIds(sealed[2].content) = {handed[2].id}
    /\ sealed[2].part = 2
    /\ ItemIds(current_content) = {handed[3].id}
    /\ merger_pc = "run"

\* the ids of the artifacts in a bundle content, in order
RECURSIVE IdSeq(_)
IdSeq(content) ==
    IF content = <<>> THEN <<>>
    ELSE (IF content[1].t = "item" THEN <<content[1].id>> ELSE <<>>) \o IdSeq(Tail(content))

\* the ids of the artifacts the merger could read, in the order it got them
RECURSIVE ReadableIdSeq(_)
ReadableIdSeq(h) ==
    IF h = <<>> THEN <<>>
    ELSE (IF h[1].stat_ok /\ h[1].read_ok THEN <<h[1].id>> ELSE <<>>)
         \o ReadableIdSeq(Tail(h))

\* the bundle that went out as part n
BundleOfPart(n) == sealed[CHOOSE k \in 1..Len(sealed) : sealed[k].part = n]

\* the sealed bundles read in part-number order, parts 1..n
RECURSIVE ReadParts(_)
ReadParts(n) ==
    IF n = 0 THEN <<>> ELSE ReadParts(n - 1) \o IdSeq(BundleOfPart(n).content)

\* C12: the sealed bundles read in part-number order, followed while the
\* merger runs by what waits in its buffer, give the artifacts it could read
\* in exactly the order in which it got them.
C12_ArrivalOrderKept ==
    /\ \A n \in 1..Len(sealed) : \E k \in 1..Len(sealed) : sealed[k].part = n
    /\ ReadParts(Len(sealed)) \o (IF merger_pc = "exit" THEN <<>> ELSE IdSeq(current_content))
          = ReadableIdSeq(handed)

\* three readable artifacts ended in two bundles, the first holding two
C12_Witness ==
    /\ merger_pc = "exit"
    /\ ReadableIdSeq(handed) = <<1, 2, 3>>
    /\ Len(sealed) = 2
    /\ IdSeq(BundleOfPart(1).content) = <<1, 2>>
    /\ IdSeq(BundleOfPart(2).content) = <<3>>

\* C13: the k-th bundle to be sealed goes out as part k: the first as part 1,
\* each later one under the next number, no number twice.
C13_PartNumbersCount ==
    /\ \A k \in 1..Len(sealed) : sealed[k].part = k
    /\ \A k, l \in 1..Len(sealed) : sealed[k].part = sealed[l].part => k = l

\* three bundles went out, the last by the final flush
C13_Witness ==
    /\ merger_pc = "exit"
    /\ Len(sealed) = 3
    /\ sealed[3].part = 3
    /\ \A k \in 1..3 : ItemIds(sealed[k].content) # {}

(***************************************************************************)
(* Properties of the concurrency limiter.                                  *)
(***************************************************************************)
\* C9: with a limit above zero, the operations inside their body never
\* outnumber the limit.
C9_AtMostLimitRunning == limit > 0 => Cardinality(Running) <= limit

\* the limit is reached while another operation waits for the semaphore
C9_Witness ==
    /\ limit > 0
    /\ Cardinality(Running) = limit
    /\ \E i \in DOMAIN tpc : tpc[i] = "pending"
    /\ sem = 0

\* C10: gather never raises; when it returns, every operation has run to its
\* end, the list has one slot per operation, a failed operation's slot holds
\* None and every other slot holds that operation's own result.
C10_IsolateAndContinue ==
    /\ gather # "raised"
    /\ \A i \in DOMAIN tres : tres[i].tag # "raise"
    /\ (gather = "returned" =>
           /\ DOMAIN GatherResults = 1..Len(tasks)
           /\ \A i \in 1..Len(tasks) :
                 /\ tpc[i] = "done"
                 /\ (tkind[i] \in ErrorKinds => GatherResults[i] = NoneResult)
                 /\ (tkind[i] \notin ErrorKinds =>
                        /\ GatherResults[i].tag = "tuple"
                        /\ GatherResults[i].url \in FinalUrls(tasks[i])))

\* gather returned three slots: the first operation got an HTTP error, the
\* second a request error, the third succeeded
C10_Witness ==
    /\ gather = "returned"
    /\ Len(tasks) = 3
    /\ tkind[1] = "http_error"
    /\ tkind[2] = "request_error"
    /\ tkind[3] = "html"
    /\ GatherResults[3].tag = "tuple"

\* C19: with limit 0 the call comes back: every operation has run to its end
\* and the list has one slot for each.
C19_ZeroMeansUnlimited ==
    (limit = 0) ~> (/\ gather = "returned"
                    /\ \A i \in DOMAIN tpc : tpc[i] = "done"
                    /\ Len(completed) = Len(tasks))

\* with limit 0 all three operations are inside their body at once
C19_Witness ==
    /\ limit = 0
    /\ Len(tasks) = 3
    /\ Cardinality(Running) = 3
    /\ gather = "waiting"

\* C20: the returned list has one slot per operation, and slot i holds what
\* the i-th submitted operation came to, whatever the order of completion and
\* whatever the limit.
C20_ResultsInSubmissionOrder ==
    gather = "returned" =>
        /\ Len(GatherResults) = Len(tasks)
        /\ \A i \in 1..Len(tasks) :
              LET r == GatherResults[i]
              IN IF tkind[i] \in ErrorKinds
                 THEN r = NoneResult
                 ELSE /\ r = tres[i]
                      /\ r.tag = "tuple"
                      /\ r.url \in FinalUrls(tasks[i])
                      /\ (r.content = "None" <=> tkind[i] = "other")

\* three operations under limit 2 finished in the order 2, 3, 1, and each
\* slot holds its own operation's tuple
C20_Witness ==
    /\ gather = "returned"
    /\ limit = 2
    /\ Len(tasks) = 3
    /\ completed = <<2, 3, 1>>
    /\ \A i \in 1..3 : GatherResults[i].tag = "tuple" /\ GatherResults[i].url = tasks[i]

(***************************************************************************)
(* Further properties of the merger.                                       *)
(***************************************************************************)
\* C21: when the merger is handed an artifact of zero bytes, nothing changes
\* but the record that it was handed: no item and no separator is appended,
\* the byte estimate and the item count stay as they are, nothing is sealed.
C21_ZeroByteSkipped ==
    [][ (Len(handed') = Len(handed) + 1 /\ handed'[Len(handed')].size = 0) =>
            /\ current_content' = current_content
            /\ current_batch_size' = current_batch_size
            /\ files_in_batch' = files_in_batch
            /\ sealed' = sealed
            /\ part_num' = part_num
      ]_vars

\* C22: no PDF bundle, sealed or in the making, holds more documents than
\* the cap, and a full bundle is sealed on the count alone.
C22_PdfItemCap ==
    ext = "pdf" =>
        /\ files_in_batch <= PdfBatchCap
        /\ \A k \in 1..Len(sealed) :
              Cardinality(ItemsOf(sealed[k].content)) <= PdfBatchCap

\* the 51st document made the merger seal the first 50, far below max_bytes
C22_Witness ==
    /\ ext = "pdf"
    /\ Len(handed) = PdfBatchCap + 1
    /\ Len(sealed) = 1
    /\ Cardinality(ItemsOf(sealed[1].content)) = PdfBatchCap
    /\ EncodedSize(sealed[1].content) < max_bytes
    /\ files_in_batch = 1
    /\ part_num = 2

\* C23: a bundle is sealed before an artifact only when the artifact would
\* not fit, so no sealed bundle but the last could have taken the artifact
\* that follows it; ten artifacts of 10 MB under 25 MB come out as five parts
\* of two artifacts each, none above 25 MB.
C23_GreedyPacking ==
    /\ \A k \in 1..Len(sealed) :
          k < Len(sealed) \/ merger_pc = "run" =>
              EncodedSize(sealed[k].content) + 10 * 1024 * 1024 + sep_size > max_bytes
    /\ (merger_pc = "exit" /\ Len(handed) = 10) =>
          /\ Len(sealed) = 5
          /\ \A k \in 1..5 :
                /\ sealed[k].part = k
                /\ IdSeq(sealed[k].content) = <<2 * k - 1, 2 * k>>
                /\ EncodedSize(sealed[k].content) <= 25 * 1024 * 1024

\* all ten artifacts merged and the fifth part written by the final flush
C23_Witness ==
    /\ merger_pc = "exit"
    /\ Len(handed) = 10
    /\ max_bytes = 25 * 1024 * 1024
    /\ Len(sealed) = 5
    /\ EncodedSize(sealed[5].content) = 2 * (10 * 1024 * 1024 + sep_size)

\* C28: a bundle whose write fails is given up and the merger goes on: the
\* flush still takes the next part number and empties the buffer and the byte
\* estimate, so that the buffer then holds at most the artifact that caused the
\* flush; the artifacts of the failed bundle are in no other bundle; and the
\* bundles sealed afterwards carry later part numbers.
C28_WriteFailureContained ==
    [][ /\ (/\ Len(sealed') = Len(sealed) + 1
             /\ ~sealed'[Len(sealed')].written
             /\ merger_pc' = "run") =>
                /\ part_num' = part_num + 1
                /\ ItemIds(current_content') \subseteq {handed'[Len(handed')].id}
                /\ current_batch_size' =
                      (IF current_content' = <<>> THEN 0
                       ELSE handed'[Len(handed')].size
                            + (IF ext = "pdf" THEN 0 ELSE sep_size))
                /\ files_in_batch' <= 1
        /\ \A k \in 1..Len(sealed') :
              ~sealed'[k].written =>
                  /\ \A l \in 1..Len(sealed') :
                        l # k => ItemIds(sealed'[l].content) \cap ItemIds(sealed'[k].content) = {}
                  /\ \A l \in 1..Len(sealed') : l > k => sealed'[l].part > sealed'[k].part
                  /\ (merger_pc' = "run" =>
                         ItemIds(current_content') \cap ItemIds(sealed'[k].content) = {})
      ]_vars

\* the write of part 1 failed; the artifact that followed went out as part 2
C28_Witness ==
    /\ merger_pc = "exit"
    /\ Len(sealed) = 2
    /\ ~sealed[1].written
    /\ ItemIds(sealed[1].content) # {}
    /\ sealed[2].written
    /\ sealed[2].part = 2
    /\ ItemIds(sealed[2].content) = {handed[Len(handed)].id}

(***************************************************************************)
(* Further properties of the crawl.                                        *)
(***************************************************************************)
\* C29: when a round is aggregated, every url fetched in it has an item on
\* the fetch queue, and the item of a url whose fetch failed or was not HTML
\* carries None as its content.
C29_AbsentContentStillQueued ==
    [][ (crawl_pc = "await" /\ crawl_pc' = "loop") =>
            \A i \in DOMAIN tasks :
                \E k \in (Len(fetch_queue) + 1)..Len(fetch_queue') :
                    /\ fetch_queue'[k].url \in FinalUrls(tasks[i])
                    /\ (tkind[i] \in ErrorKinds \cup {"other"}
                           => fetch_queue'[k].content = "None")
      ]_vars

\* C30: a round is dispatched only when no fetch of an earlier round is
\* pending or running and the earlier round has been aggregated; what is
\* dispatched is the queue of that moment; a fetch starts only while its own
\* round is awaited; a round is aggregated only when all its fetches are done.
C30_RoundsStrictlyOrdered ==
    [][ /\ (crawl_pc = "loop" /\ crawl_pc' = "await") =>
              /\ \A i \in DOMAIN tpc : tpc[i] = "done"
              /\ gather = "idle"
              /\ Range(tasks') = queue
        /\ \A u \in DOMAIN fetch_count :
              fetch_count'[u] > fetch_count[u] => (crawl_pc = "await" /\ u \in queue)
        /\ (crawl_pc = "await" /\ crawl_pc' = "loop") =>
              /\ \A i \in DOMAIN tpc : tpc[i] = "done"
              /\ depth' = depth + 1
        /\ (depth' # depth => (crawl_pc = "await" /\ crawl_pc' = "loop"))
      ]_vars

\* the second round: the seed's content is queued, its two links are being
\* fetched at the same time
C30_Witness ==
    /\ crawl_pc = "await"
    /\ depth = 1
    /\ Len(fetch_queue) = 1
    /\ fetch_queue[1].url = start_url
    /\ Cardinality(Running) = 2
    /\ \A i \in Running : tasks[i] # start_url

\* a url as the frontier is meant to hold it: no fragment, no trailing slash
Normalized(u) == (\A i \in 1..Len(u) : u[i] # "#") /\ (u = <<>> \/ u[Len(u)] # "/")

\* C27: what parse_links makes of a link is left unchanged by a second pass,
\* every url in discovered is without fragment and without trailing slash,
\* and no two urls in discovered differ by a trailing slash only.
C27_NormalizedFrontier ==
    \A u \in discovered :
        /\ clean_link(clean_link(u)) = clean_link(u)
        /\ clean_link(u) = u
        /\ Normalized(u)
        /\ \A v \in discovered : v = u \o <<"/">> => v = u

(***************************************************************************)
(* Properties of the fetch stage.                                          *)
(***************************************************************************)
\* the output types that work from downloaded content
FinishedItems == {i \in DOMAIN tpc : tpc[i] = "done"}

\* the answers that tell that a resource is not there
Unavailable == {"404", "error"}

\* the first thing item i asked for was its .md resource, and it was not there
MdUnavailable(i) ==
    /\ requests[i] # <<>>
    /\ requests[i][1].target = md_url(tasks[i])
    /\ requests[i][1].answer \in Unavailable

\* what can go wrong for an item after its content is at hand: the write of
\* the artifact, the renderer, a missing browser context
LaterFailures == {"save", "render", "close", "no_context"}

\* item i downloaded the page itself
Redownloaded(i) ==
    \E k \in 1..Len(requests[i]) :
        requests[i][k].method = "GET" /\ requests[i][k].target = tasks[i]

\* C24, first part: under prioritize-md an unavailable .md resource still
\* ends in an artifact (a failure of the write or of the renderer apart)
C24_FallbackYieldsArtifact ==
    \A i \in FinishedItems :
        (md_strategy = "prioritize-md" /\ MdUnavailable(i)) =>
            (tres[i].tag = "path" \/ tkind[i] \in LaterFailures)

\* C24, first part: the artifact of the fallback is made from the HTML the
\* worker was given, so the page is not downloaded again
C24_FallbackUsesSuppliedHtml ==
    \A i \in FinishedItems :
        (md_strategy = "prioritize-md" /\ MdUnavailable(i)) => ~Redownloaded(i)

\* C24, second part: only-md gives no artifact when the .md resource is not
\* there
C24_OnlyMdYieldsNothing ==
    \A i \in FinishedItems :
        (md_strategy = "only-md" /\ MdUnavailable(i)) => tres[i] = NoneResult

\* C24, third part: only-html never asks for the .md resource
C24_OnlyHtmlNeverAsks ==
    \A i \in FinishedItems :
        (md_strategy = "only-html") =>
            \A k \in 1..Len(requests[i]) : requests[i][k].target # md_url(tasks[i])

\* C24: under prioritize-md an unavailable .md resource (a 404, say) still
\* ends in an artifact, made from the HTML the worker was given; under
\* only-md the same unavailable .md resource ends in no artifact; under
\* only-html the .md resource is never requested.
C24_FallsBackToSuppliedHtml ==
    /\ C24_FallbackYieldsArtifact
    /\ C24_FallbackUsesSuppliedHtml
    /\ C24_OnlyMdYieldsNothing
    /\ C24_OnlyHtmlNeverAsks

\* C25: no operation of the fetch stage raises; when process_urls returns,
\* every item has been processed, an item that failed has None as its result,
\* every other item has its own file, and the list returned holds the files
\* of exactly the items that did not fail.
C25_ItemFailureContained ==
    /\ gather # "raised"
    /\ \A i \in DOMAIN tres : tres[i].tag # "raise"
    /\ (gather = "returned" /\ requests # <<>>) =>
          /\ \A i \in 1..Len(tasks) :
                /\ tpc[i] = "done"
                /\ IF tkind[i] = "ok"
                   THEN /\ tres[i].tag = "path"
                        /\ \E k \in 1..Len(temp_dir) :
                              temp_dir[k].by = i /\ temp_dir[k].path = tres[i].content
                   ELSE tres[i] = NoneResult
          /\ Len(ProcessUrlsResult) = Cardinality({i \in 1..Len(tasks) : tkind[i] = "ok"})
          /\ \A k \in 1..Len(ProcessUrlsResult) :
                \E i \in 1..Len(tasks) :
                    tkind[i] = "ok" /\ ProcessUrlsResult[k] = tres[i]

\* the renderer failed on the first of two urls; the second has its PDF
C25_Witness ==
    /\ gather = "returned"
    /\ output_type = "pdf-rendered"
    /\ has_context
    /\ Len(tasks) = 2
    /\ tkind[1] = "render"
    /\ tkind[2] = "ok"
    /\ Len(ProcessUrlsResult) = 1
    /\ ProcessUrlsResult[1].url = tasks[2]

\* C26: no two files in the temporary directory have the same path; the file
\* of the operation at index i carries the number i, so numbers grow with the
\* position in the list of urls.
C26_DistinctChunkPaths ==
    \A k, l \in 1..Len(temp_dir) :
        /\ (temp_dir[k].path = temp_dir[l].path => k = l)
        /\ (temp_dir[k].path.name = temp_dir[l].path.name => temp_dir[k].by = temp_dir[l].by)
        /\ temp_dir[k].path.name = Format05d(temp_dir[k].by - 1)

\* two operations ran at the same time; the second wrote its file first
C26_Witness ==
    /\ Len(tasks) = 2
    /\ Len(temp_dir) = 2
    /\ temp_dir[1].by = 2
    /\ temp_dir[2].by = 1
    /\ temp_dir[1].path.name = <<0, 0, 0, 0, 1>>
    /\ temp_dir[2].path.name = <<0, 0, 0, 0, 0>>
    /\ limit # 1

(***************************************************************************)
(* The content items of the crawl.                                         *)
(***************************************************************************)
\* the content of a result is there: not None and not the empty string
HasContent(r) == r.content \notin {"None", ""}

\* C31: when a round is aggregated, every fetch of the round that came back
\* with content gets exactly one item (url, content) on the fetch queue, url
\* being the url of its result, and a url whose content is absent has no
\* item; no url has two items on the queue, no item is without content, and
\* the queue never holds more items than fetches were completed.
C31_ContentEnqueuedOnce ==
    [][ /\ (crawl_pc = "await" /\ crawl_pc' = "loop") =>
              \A i \in DOMAIN tasks :
                  LET new == {k \in (Len(fetch_queue) + 1)..Len(fetch_queue') :
                                 fetch_queue'[k].url = tres[i].url}
                  IN IF HasContent(tres[i])
                     THEN /\ Cardinality(new) = 1
                          /\ \A k \in new : fetch_queue'[k].content = tres[i].content
                     ELSE \A k \in 1..Len(fetch_queue') : fetch_queue'[k].url # tasks[i]
        /\ \A k, l \in 1..Len(fetch_queue') :
              fetch_queue'[k].url = fetch_queue'[l].url => k = l
        /\ \A k \in 1..Len(fetch_queue') :
              /\ fetch_queue'[k].tag = "item"
              /\ HasContent(fetch_queue'[k])
        /\ Len(fetch_queue') <= visited_count'
      ]_vars

(***************************************************************************)
(* Empty bundles and unreadable artifacts.                                 *)
(***************************************************************************)
\* C32: a bundle is sealed, by an add or by the final flush, only when the
\* buffer holds at least one artifact, and what is sealed is that buffer; so
\* no sealed bundle is empty, and when no artifact was handed over nothing is
\* sealed and the part number is still 1.
C32_NeverSealsEmpty ==
    [][ /\ (Len(sealed') > Len(sealed)) =>
              /\ Len(sealed') = Len(sealed) + 1
              /\ ItemIds(current_content) # {}
              /\ sealed'[Len(sealed')].content = current_content
              /\ (ext = "pdf" => files_in_batch > 0)
        /\ \A k \in 1..Len(sealed') : ItemIds(sealed'[k].content) # {}
        /\ (handed' = <<>> \/ ReadableIds' = {}) => (sealed' = <<>> /\ part_num' = 1)
      ]_vars

\* the first artifact went out as part 1 when the second arrived; the second
\* could not be read, so the final flush found the buffer empty and sealed
\* nothing
C32_Witness ==
    /\ merger_pc = "exit"
    /\ Len(handed) = 2
    /\ handed[2].stat_ok
    /\ ~handed[2].read_ok
    /\ Len(sealed) = 1
    /\ ItemIds(sealed[1].content) = {handed[1].id}
    /\ current_content = <<>>
    /\ part_num = 2

\* C33: when the merger is handed an artifact whose stat, read or append
\* fails, nothing changes but the record that it was handed: the buffer, the
\* byte estimate, the item count and the part number stay as they are and
\* nothing is sealed.
C33_UnreadableLeavesStateUntouched ==
    [][ (/\ Len(handed') = Len(handed) + 1
         /\ (~handed'[Len(handed')].stat_ok \/ ~handed'[Len(handed')].read_ok)) =>
            /\ current_content' = current_content
            /\ current_batch_size' = current_batch_size
            /\ files_in_batch' = files_in_batch
            /\ part_num' = part_num
            /\ sealed' = sealed
      ]_vars

====
